---- MODULE Spec2Model ----
(***************************************************************************)
(* Model of pronto/serializers/_fastobo.py: FastoboSerializer, the mixin   *)
(* that turns an Ontology into a fastobo document (header frame, term     *)
(* frames, typedef frames).                                                *)
(*                                                                         *)
(* Encoding of Python values                                               *)
(*   - a str is a natural number, its rank in the lexicographic order of  *)
(*     the strings in play, so that < on codes is < on the strings;       *)
(*   - None, where a str is optional, is the number None (below every     *)
(*     code); an optional object is <<"None">> or a tagged tuple;         *)
(*   - a set or a dict is the sequence of its elements in iteration       *)
(*     order, without duplicates (dict: sequence of <<key, value>>);      *)
(*   - a value handed to a fastobo constructor is a tagged tuple:         *)
(*     <<"str", s>>, <<"Ident", s>>, <<"bool", b>>, <<"None">>,           *)
(*     <<"tuple", t>>, <<"list", ...>>; a clause is <<tag, args...>>;     *)
(*   - an exception raised at some point is <<"Error", kind>> standing at *)
(*     that point; the first one in evaluation order propagates.          *)
(***************************************************************************)
EXTENDS Integers, Sequences, FiniteSets, TLC

\* Strings are the codes 0..MaxStr.
MaxStr == 4
\* Collections of the enumerated inputs hold at most MaxLen elements.
MaxLen == 2

None == -1
\* The code of the relationships key "is_a".
IS_A == 2
\* Codes of strings that fastobo.id.parse rejects (e.g. "bad id").
Malformed == {0}

Strs == 0..MaxStr

-----------------------------------------------------------------------------
(* Python and fastobo primitives *)

Str(x) == <<"str", x>>
Bool(b) == <<"bool", b>>
Tuple(t) == <<"tuple", t>>
PyNone == <<"None">>
\* An optional str of the model as a Python value.
Opt(x) == IF x = None THEN PyNone ELSE Str(x)

Raise(kind) == <<"Error", kind>>
IsError(v) == v[1] = "Error"

\* The first exception raised while evaluating items left to right.
FirstError(items) ==
    LET bad == {i \in DOMAIN items : IsError(items[i])}
    IN  items[CHOOSE i \in bad : \A j \in bad : i <= j]

HasError(items) == \E i \in DOMAIN items : IsError(items[i])

\* A constructor call tag(args...): an exception in an argument propagates.
New(tag, args) == IF HasError(args) THEN FirstError(args) ELSE <<tag>> \o args

\* A list built from items, each of which may have raised.
List(items) == New("list", items)

\* fastobo.id.parse: a str that is a well-formed identifier becomes an
\* Ident, a malformed one raises ValueError, a non-str raises TypeError.
IdParse(v) ==
    IF v[1] # "str" THEN Raise("TypeError")
    ELSE IF v[2] \in Malformed THEN Raise("ValueError")
    ELSE <<"Ident", v[2]>>

MapSeq(s, f(_)) == [i \in DOMAIN s |-> f(s[i])]

RECURSIVE Flatten(_)
Flatten(ss) == IF ss = <<>> THEN <<>> ELSE Head(ss) \o Flatten(Tail(ss))

Min(a, b) == IF a < b THEN a ELSE b

\* Python's < on tuples of str (and on str, as 1-tuples).
LexLess(a, b) ==
    \/ \E i \in 1..Min(Len(a), Len(b)) :
          /\ \A j \in 1..(i - 1) : a[j] = b[j]
          /\ a[i] < b[i]
    \/ /\ Len(a) < Len(b)
       /\ \A j \in 1..Len(a) : a[j] = b[j]

\* sorted(s, key=key)
sorted(s, key(_)) == SortSeq(s, LAMBDA a, b : LexLess(key(a), key(b)))

StrKey(x) == <<x>>
TupleKey(t) == t
sorted_strs(s) == sorted(s, StrKey)
sorted_tuples(s) == sorted(s, TupleKey)

When(cond, clause) == IF cond THEN <<clause>> ELSE <<>>

-----------------------------------------------------------------------------
(* Orders of the model classes (Xref, SynonymData, PropertyValue,          *)
(* SubsetData, SynonymTypeData)                                            *)

XrefKey(x) == <<x.id, x.description>>
SynonymKey(s) == <<s.description, s.scope, s.type>>
PropertyValueKey(pv) ==
    IF "resource" \in DOMAIN pv THEN <<pv.property, 1, pv.resource>>
    ELSE <<pv.property, 0, pv.literal, pv.datatype>>
SubsetKey(s) == <<s.name, s.description>>
SynonymTypeKey(s) == <<s.id, s.description>>
IdAttr(e) == <<e.id>>
ItemKey(kv) == <<kv[1]>>

-----------------------------------------------------------------------------
(* Value conversion helpers *)

\* _to_xref
to_xref(x) == New("Xref", <<IdParse(Str(x.id)), Opt(x.description)>>)

\* [self._to_xref(x) for x in sorted(xrefs)]
sorted_xref_list(xrefs) == List(MapSeq(sorted(xrefs, XrefKey), to_xref))

\* _to_property_value: the resource form is tried first; reading
\* pv.resource of a literal property value raises AttributeError, which
\* selects the literal form.
to_property_value(pv) ==
    LET property == IdParse(Str(pv.property))
    IN  IF IsError(property) THEN property
        ELSE IF "resource" \in DOMAIN pv
        THEN New("ResourcePropertyValue",
                 <<property, IdParse(Str(pv.resource))>>)
        ELSE New("LiteralPropertyValue",
                 <<property, Str(pv.literal), IdParse(Opt(pv.datatype))>>)

\* _to_synonym: map(self._to_xref, syn.xrefs) walks the xref set in its
\* iteration order.
to_synonym(syn) ==
    New("Synonym",
        << Str(syn.description),
           Str(syn.scope),
           IF syn.type = None THEN PyNone ELSE IdParse(Str(syn.type)),
           List(MapSeq(syn.xrefs, to_xref)) >>)

-----------------------------------------------------------------------------
(* Header frame *)

SubsetdefClause(subset) ==
    New("subsetdef", <<IdParse(Str(subset.name)), Str(subset.description)>>)

SynonymTypedefClause(syn) ==
    New("synonymtypedef",
        <<IdParse(Str(syn.id)), Str(syn.description), Opt(syn.scope)>>)

\* idspaces.items() yields <<id, <<url, description>>>>
IdspaceClause(item) ==
    New("idspace", <<Str(item[1]), Str(item[2][1]), Opt(item[2][2])>>)

\* for value in values: frame.append(UnreservedClause(tag, value))
UnreservedClauses(item) ==
    MapSeq(item[2], LAMBDA value : New("unreserved", <<Str(item[1]), Str(value)>>))

ScalarClause(tag, value) == When(value # None, New(tag, <<Str(value)>>))

\* The clauses appended by _to_header_frame, in order; an exception stands
\* in the place where it is raised.
header_clauses(m) ==
       ScalarClause("format-version", m.format_version)
    \o ScalarClause("data-version", m.data_version)
    \o ScalarClause("date", m.date)
    \o ScalarClause("saved-by", m.saved_by)
    \o ScalarClause("auto-generated-by", m.auto_generated_by)
    \o MapSeq(sorted_strs(m.imports), LAMBDA i : New("import", <<Str(i)>>))
    \o MapSeq(sorted(m.subsetdefs, SubsetKey), SubsetdefClause)
    \o MapSeq(sorted(m.synonymtypedefs, SynonymTypeKey), SynonymTypedefClause)
    \o ScalarClause("default-namespace", m.default_namespace)
    \o ScalarClause("namespace-id-rule", m.namespace_id_rule)
    \o MapSeq(sorted(m.idspaces, ItemKey), IdspaceClause)
    \o MapSeq(sorted(m.annotations, PropertyValueKey),
              LAMBDA pv : New("property_value", <<to_property_value(pv)>>))
    \o MapSeq(sorted_strs(m.remarks), LAMBDA r : New("remark", <<Str(r)>>))
    \o ScalarClause("ontology", m.ontology)
    \o MapSeq(m.owl_axioms, LAMBDA line : New("owl-axioms", <<Str(line)>>))
    \o Flatten(MapSeq(sorted(m.unreserved, ItemKey), UnreservedClauses))

\* _to_header_frame
to_header_frame(m) ==
    LET clauses == header_clauses(m)
    IN  IF HasError(clauses) THEN FirstError(clauses)
        ELSE <<"HeaderFrame", clauses>>

-----------------------------------------------------------------------------
(* Clauses shared by term and typedef frames *)

IdClause(tag, id) == New(tag, <<IdParse(Str(id))>>)

\* for x in sorted(ids): frame.append(Clause(fastobo.id.parse(x)))
SortedIdClauses(tag, ids) ==
    MapSeq(sorted_strs(ids), LAMBDA x : IdClause(tag, x))

DefClause(definition) ==
    When(definition # PyNone,
         New("def", <<Str(definition[2]), sorted_xref_list(definition[3])>>))

\* relationships.get('is_a', ())
is_a_targets(relationships) ==
    LET hit == {i \in DOMAIN relationships : relationships[i][1] = IS_A}
    IN  IF hit = {} THEN <<>> ELSE relationships[CHOOSE i \in hit : TRUE][2]

\* The generic relationship loop without the test on the key
RelationshipClausesAllKeys(relationships) ==
    Flatten(MapSeq(relationships, LAMBDA item :
        LET r_id == IdParse(Str(item[1]))
        IN  IF IsError(r_id) THEN <<r_id>>
            ELSE MapSeq(item[2], LAMBDA value :
                     New("relationship", <<r_id, IdParse(Str(value))>>))))

\* for r, values in relationships.items(): if r != "is_a": ...
RelationshipClauses(relationships) ==
    Flatten(MapSeq(relationships, LAMBDA item :
        IF item[1] = IS_A THEN <<>>
        ELSE LET r_id == IdParse(Str(item[1]))
             IN  IF IsError(r_id) THEN <<r_id>>
                 ELSE MapSeq(item[2], LAMBDA value :
                          New("relationship", <<r_id, IdParse(Str(value))>>))))

Flag(tag, value) == When(value, New(tag, <<Bool(TRUE)>>))

\* The namespace clause emitted whenever the entity has a namespace
NamespaceClauseAlways(e, ont_default_namespace) ==
    When(e.namespace # None, New("namespace", <<Str(e.namespace)>>))

\* if e.namespace is not None: if e.namespace != self.ont.default_namespace
NamespaceClause(e, ont_default_namespace) ==
    When(e.namespace # None /\ e.namespace # ont_default_namespace,
         New("namespace", <<Str(e.namespace)>>))

\* A frame constructed on the parsed id, then the clauses appended to it.
Frame(tag, id, clauses) ==
    LET items == <<id>> \o clauses
    IN  IF HasError(items) THEN FirstError(items) ELSE <<tag, id, clauses>>

-----------------------------------------------------------------------------
(* Term frame *)

Filter(s, Test(_)) == SelectSeq(s, Test)

\* for i in sorted(filter(lambda x: len(x) == 1, t.intersection_of)):
\*     IntersectionOfClause(term=fastobo.id.parse(i))
\* i is the 1-element tuple itself, and that is what the parser is given.
IntersectionOfTermClauses(intersection_of) ==
    MapSeq(sorted_tuples(Filter(intersection_of, LAMBDA x : Len(x) = 1)),
           LAMBDA i : New("intersection_of", <<IdParse(Tuple(i))>>))

\* for (i, j) in sorted(filter(lambda x: len(x) == 2, t.intersection_of)):
\*     IntersectionOfClause(typedef=fastobo.id.parse(i), term=fastobo.id.parse(j))
IntersectionOfPairClauses(intersection_of) ==
    MapSeq(sorted_tuples(Filter(intersection_of, LAMBDA x : Len(x) = 2)),
           LAMBDA p : New("intersection_of",
                          <<IdParse(Str(p[1])), IdParse(Str(p[2]))>>))

\* The clauses appended by _to_term_frame, in order.
term_clauses(ont_default_namespace, t) ==
       Flag("is_anonymous", t.anonymous)
    \o ScalarClause("name", t.name)
    \o NamespaceClause(t, ont_default_namespace)
    \o SortedIdClauses("alt_id", t.alternate_ids)
    \o DefClause(t.definition)
    \o ScalarClause("comment", t.comment)
    \o SortedIdClauses("subset", t.subsets)
    \o MapSeq(sorted(t.synonyms, SynonymKey),
              LAMBDA syn : New("synonym", <<to_synonym(syn)>>))
    \o MapSeq(sorted(t.xrefs, XrefKey), LAMBDA x : New("xref", <<to_xref(x)>>))
    \o Flag("builtin", t.builtin)
    \o MapSeq(sorted(t.annotations, PropertyValueKey),
              LAMBDA pv : New("property_value", <<to_property_value(pv)>>))
    \o SortedIdClauses("is_a", is_a_targets(t.relationships))
    \o IntersectionOfTermClauses(t.intersection_of)
    \o IntersectionOfPairClauses(t.intersection_of)
    \o SortedIdClauses("union_of", t.union_of)
    \o SortedIdClauses("equivalent_to", t.equivalent_to)
    \o SortedIdClauses("disjoint_from", t.disjoint_from)
    \o RelationshipClauses(t.relationships)
    \o ScalarClause("created_by", t.created_by)
    \o ScalarClause("creation_date", t.creation_date)
    \o Flag("is_obsolete", t.obsolete)
    \o SortedIdClauses("replaced_by", t.replaced_by)
    \o SortedIdClauses("consider", t.consider)

\* _to_term_frame
to_term_frame(ont_default_namespace, t) ==
    Frame("TermFrame", IdParse(Str(t.id)),
          term_clauses(ont_default_namespace, t))

-----------------------------------------------------------------------------
(* Typedef frame *)

\* for chain in sorted(r.holds_over_chain): HoldsOverChainClause(*chain)
\* The two ids of the chain are passed as they are.
HoldsOverChainClause(chain) ==
    New("holds_over_chain", <<Str(chain[1]), Str(chain[2])>>)

\* c1, c2 = map(fastobo.id.parse, chain); EquivalentToChainClause(c1, c2)
EquivalentToChainClause(chain) ==
    New("equivalent_to_chain", <<IdParse(Str(chain[1])), IdParse(Str(chain[2]))>>)

\* for d in definitions: Clause(str(d), [self._to_xref(x) for x in sorted(d.xrefs)])
ExpandClauses(tag, definitions) ==
    MapSeq(definitions,
           LAMBDA d : New(tag, <<Str(d[2]), sorted_xref_list(d[3])>>))

\* The name r after "for r in sorted(r.replaced_by)": the last id of the
\* loop when the loop ran, the RelationshipData otherwise.
r_after_replaced_by(r) ==
    LET ids == sorted_strs(r.replaced_by)
    IN  IF ids = <<>> THEN <<"RelationshipData", r>> ELSE Str(ids[Len(ids)])

\* The clauses appended after the replaced_by loop, read from the name r as
\* the loop left it: an attribute of a str raises AttributeError.
clauses_after_replaced_by(r) ==
    LET r2 == r_after_replaced_by(r)
    IN  IF r2[1] # "RelationshipData" THEN <<Raise("AttributeError")>>
        ELSE    SortedIdClauses("consider", r2[2].consider)
             \o ExpandClauses("expand_assertion_to", r2[2].expand_assertion_to)
             \o ExpandClauses("expand_expression_to", r2[2].expand_expression_to)
             \o Flag("is_metadata_tag", r2[2].metadata_tag)
             \o Flag("is_class_level", r2[2].class_level)

\* The clauses appended by _to_typedef_frame, in order.
typedef_clauses(ont_default_namespace, r) ==
       Flag("is_anonymous", r.anonymous)
    \o ScalarClause("name", r.name)
    \o NamespaceClause(r, ont_default_namespace)
    \o SortedIdClauses("alt_id", r.alternate_ids)
    \o DefClause(r.definition)
    \o ScalarClause("comment", r.comment)
    \o SortedIdClauses("subset", r.subsets)
    \o MapSeq(sorted(r.synonyms, SynonymKey),
              LAMBDA syn : New("synonym", <<to_synonym(syn)>>))
    \o MapSeq(sorted(r.xrefs, XrefKey), LAMBDA x : New("xref", <<to_xref(x)>>))
    \o MapSeq(sorted(r.annotations, PropertyValueKey),
              LAMBDA pv : New("property_value", <<to_property_value(pv)>>))
    \o When(r.domain # None, IdClause("domain", r.domain))
    \o When(r.range # None, IdClause("range", r.range))
    \o Flag("builtin", r.builtin)
    \o MapSeq(sorted_tuples(r.holds_over_chain), HoldsOverChainClause)
    \o Flag("is_anti_symmetric", r.antisymmetric)
    \o Flag("is_cyclic", r.cyclic)
    \o Flag("is_reflexive", r.reflexive)
    \o Flag("is_asymmetric", r.asymmetric)
    \o Flag("is_symmetric", r.symmetric)
    \o Flag("is_transitive", r.transitive)
    \o Flag("is_functional", r.functional)
    \o Flag("is_inverse_functional", r.inverse_functional)
    \o SortedIdClauses("is_a", is_a_targets(r.relationships))
    \o SortedIdClauses("intersection_of", r.intersection_of)
    \o SortedIdClauses("union_of", r.union_of)
    \o SortedIdClauses("equivalent_to", r.equivalent_to)
    \o SortedIdClauses("disjoint_from", r.disjoint_from)
    \o When(r.inverse_of # None, IdClause("inverse_of", r.inverse_of))
    \o SortedIdClauses("transitive_over", r.transitive_over)
    \o MapSeq(sorted_tuples(r.equivalent_to_chain), EquivalentToChainClause)
    \o SortedIdClauses("disjoint_over", r.disjoint_over)
    \o RelationshipClauses(r.relationships)
    \o Flag("is_obsolete", r.obsolete)
    \o ScalarClause("created_by", r.created_by)
    \o ScalarClause("creation_date", r.creation_date)
    \o SortedIdClauses("replaced_by", r.replaced_by)
    \o clauses_after_replaced_by(r)

\* _to_typedef_frame
to_typedef_frame(ont_default_namespace, r) ==
    Frame("TypedefFrame", IdParse(Str(r.id)),
          typedef_clauses(ont_default_namespace, r))

-----------------------------------------------------------------------------
(* Document *)

\* self.ont.default_namespace: the default namespace of the ontology's
\* metadata.
default_namespace(ont) ==
    IF ont.metadata = PyNone THEN None ELSE ont.metadata[2].default_namespace

\* if o.metadata: a Metadata object counts as present, None as absent.
Truthy(metadata) == metadata # PyNone

\* The document assembled with every frame that raised left out
to_obodoc_skip_failed(self_ont, o) ==
    LET dn == default_namespace(self_ont)
        header == IF Truthy(o.metadata)
                  THEN <<to_header_frame(o.metadata[2])>> ELSE <<>>
        frames ==
               MapSeq(sorted(self_ont.terms, IdAttr),
                      LAMBDA termdata : to_term_frame(dn, termdata))
            \o MapSeq(sorted(self_ont.relationships, IdAttr),
                      LAMBDA reldata : to_typedef_frame(dn, reldata))
        kept == SelectSeq(frames, LAMBDA f : ~IsError(f))
    IN  <<"OboDoc",
          IF header = <<>> \/ HasError(header) THEN <<"default">> ELSE header[1],
          kept>>

\* _to_obodoc: the header is built from the argument o, the term and
\* typedef frames from the ontology the serializer holds (self.ont).
to_obodoc(self_ont, o) ==
    LET dn == default_namespace(self_ont)
        header == IF Truthy(o.metadata)
                  THEN <<to_header_frame(o.metadata[2])>> ELSE <<>>
        frames ==
               MapSeq(sorted(self_ont.terms, IdAttr),
                      LAMBDA termdata : to_term_frame(dn, termdata))
            \o MapSeq(sorted(self_ont.relationships, IdAttr),
                      LAMBDA reldata : to_typedef_frame(dn, reldata))
        items == header \o frames
    IN  IF HasError(items) THEN FirstError(items)
        ELSE <<"OboDoc", IF header = <<>> THEN <<"default">> ELSE header[1],
               frames>>

-----------------------------------------------------------------------------
(* The inputs enumerated *)

\* Sets and dicts of at most n elements of S, in every iteration order.
SeqsNoDup(S, n) ==
    {s \in UNION {[1..k -> S] : k \in 0..n} :
        \A i, j \in DOMAIN s : i # j => s[i] # s[j]}

\* dicts: no key twice
Dicts(Items, n) ==
    {d \in SeqsNoDup(Items, n) : \A i, j \in DOMAIN d : i # j => d[i][1] # d[j][1]}

IdSets == SeqsNoDup(Strs, MaxLen)
SomeIdSets == SeqsNoDup({0, 1, 4}, MaxLen)

Xrefs == {[id |-> i, description |-> d] : i \in Strs, d \in {None, 1}}
SomeXrefs == {x \in Xrefs : x.id \in {0, 1, 3} /\ (x.description = None \/ x.id = 1)}
XrefSets == SeqsNoDup(SomeXrefs, MaxLen)

SynonymDatas ==
    {[description |-> d, scope |-> 1, type |-> t, xrefs |-> xs] :
        d \in {1, 3}, t \in {None, 0, 1}, xs \in XrefSets}
SomeSynonyms ==
    {s \in SynonymDatas : s.type = None /\ s.xrefs \in {<<>>, <<[id |-> 0, description |-> None]>>}}

PropertyValues ==
         {[property |-> p, resource |-> r] : p \in Strs, r \in Strs}
    \cup {[property |-> p, literal |-> 1, datatype |-> d] : p \in Strs, d \in {0, 1}}
SomePropertyValues ==
    {pv \in PropertyValues :
        /\ pv.property \in {0, 1}
        /\ "resource" \in DOMAIN pv => pv.resource = 3}

Definitions ==
    {PyNone} \cup {<<"Definition", 1, xs>> : xs \in XrefSets}

BaseMetadata ==
    [format_version |-> None, data_version |-> None, date |-> None,
     saved_by |-> None, auto_generated_by |-> None, imports |-> <<>>,
     subsetdefs |-> <<>>, synonymtypedefs |-> <<>>, default_namespace |-> None,
     namespace_id_rule |-> None, idspaces |-> <<>>, annotations |-> <<>>,
     remarks |-> <<>>, ontology |-> None, owl_axioms |-> <<>>,
     unreserved |-> <<>>]

SubsetDatas == {[name |-> n, description |-> 1] : n \in {0, 1, 3}}
SynonymTypeDatas == {[id |-> i, description |-> 1, scope |-> None] : i \in {0, 1, 3}}
IdspaceItems == {<<i, <<1, None>>>> : i \in {0, 1, 3}}
UnreservedItems ==
    {<<tag, values>> : tag \in {1, 3}, values \in SeqsNoDup({1, 3}, MaxLen) \ {<<>>}}

Metadatas ==
         {[BaseMetadata EXCEPT !.format_version = a, !.data_version = a,
                               !.date = a, !.saved_by = c,
                               !.auto_generated_by = c,
                               !.default_namespace = b,
                               !.namespace_id_rule = c, !.ontology = c] :
             a \in {None, 1}, b \in {None, 1, 3}, c \in {None, 3}}
    \cup {[BaseMetadata EXCEPT ![f] = v] :
             f \in {"imports", "remarks", "owl_axioms"}, v \in SomeIdSets}
    \cup {[BaseMetadata EXCEPT !.subsetdefs = v] : v \in SeqsNoDup(SubsetDatas, MaxLen)}
    \cup {[BaseMetadata EXCEPT !.synonymtypedefs = v] :
             v \in SeqsNoDup(SynonymTypeDatas, MaxLen)}
    \cup {[BaseMetadata EXCEPT !.idspaces = v] : v \in Dicts(IdspaceItems, MaxLen)}
    \cup {[BaseMetadata EXCEPT !.annotations = v] :
             v \in SeqsNoDup(SomePropertyValues, MaxLen)}
    \cup {[BaseMetadata EXCEPT !.unreserved = v] : v \in Dicts(UnreservedItems, 2)}

\* relationships: key -> set of targets
RelationshipItems ==
         {<<k, targets>> :
             k \in {IS_A, 3}, targets \in SeqsNoDup({1, 4}, MaxLen) \cup {<<0>>}}
    \cup {<<0, <<1>>>>, <<0, <<>>>>}
RelationshipMaps == Dicts(RelationshipItems, 2)

IntersectionTuples == {<<1>>, <<3>>, <<3, 1>>, <<3, 4>>, <<1, 4>>, <<0, 1>>}
IntersectionSets == SeqsNoDup(IntersectionTuples, MaxLen)

Chains == {<<1, 3>>, <<3, 1>>, <<0, 1>>, <<1, 0>>}
ChainSets == SeqsNoDup(Chains, MaxLen)

\* The fields TermData and RelationshipData share
BaseEntity(id) ==
    [id |-> id, anonymous |-> FALSE, name |-> None, namespace |-> None,
     alternate_ids |-> <<>>, definition |-> PyNone, comment |-> None,
     subsets |-> <<>>, synonyms |-> <<>>, xrefs |-> <<>>, annotations |-> <<>>,
     relationships |-> <<>>, builtin |-> FALSE, created_by |-> None,
     creation_date |-> None, obsolete |-> FALSE, replaced_by |-> <<>>,
     consider |-> <<>>, union_of |-> <<>>, equivalent_to |-> <<>>,
     disjoint_from |-> <<>>, intersection_of |-> <<>>]

Extend(r, more) ==
    [f \in DOMAIN r \cup DOMAIN more |-> IF f \in DOMAIN more THEN more[f] ELSE r[f]]

BaseTerm(id) == BaseEntity(id)

BaseTypedef(id) ==
    Extend(BaseEntity(id),
        [domain |-> None, range |-> None, holds_over_chain |-> <<>>,
         antisymmetric |-> FALSE, cyclic |-> FALSE, reflexive |-> FALSE,
         asymmetric |-> FALSE, symmetric |-> FALSE, transitive |-> FALSE,
         functional |-> FALSE, inverse_functional |-> FALSE,
         inverse_of |-> None, transitive_over |-> <<>>,
         equivalent_to_chain |-> <<>>, disjoint_over |-> <<>>,
         expand_assertion_to |-> <<>>, expand_expression_to |-> <<>>,
         metadata_tag |-> FALSE, class_level |-> FALSE])

\* The variations of an entity e on the fields terms and typedefs share
EntityVariations(e) ==
         {[e EXCEPT !.id = i, !.namespace = n, !.name = a, !.comment = a,
                    !.created_by = a, !.creation_date = a,
                    !.anonymous = b, !.builtin = b, !.obsolete = b] :
             i \in Strs, n \in {None, 1, 3}, a \in {None, 1}, b \in BOOLEAN}
    \cup {[e EXCEPT ![f] = v] : f \in {"alternate_ids", "replaced_by"}, v \in IdSets}
    \cup {[e EXCEPT ![f] = v] :
             f \in {"subsets", "union_of", "equivalent_to", "disjoint_from",
                    "consider"},
             v \in SomeIdSets}
    \cup {[e EXCEPT !.replaced_by = v, !.consider = w] :
             v \in SeqsNoDup({1, 3}, MaxLen), w \in SeqsNoDup({0, 4}, MaxLen)}
    \cup {[e EXCEPT !.definition = d] : d \in Definitions}
    \cup {[e EXCEPT !.synonyms = v] : v \in SeqsNoDup(SomeSynonyms, MaxLen)}
    \cup {[e EXCEPT !.synonyms = <<v>>] : v \in SynonymDatas}
    \cup {[e EXCEPT !.xrefs = v] : v \in XrefSets}
    \cup {[e EXCEPT !.annotations = v] : v \in SeqsNoDup(SomePropertyValues, MaxLen)}
    \cup {[e EXCEPT !.relationships = v, !.union_of = u, !.consider = u] :
             v \in RelationshipMaps, u \in {<<>>, <<4, 1>>}}

TermDatas ==
         EntityVariations(BaseTerm(1))
    \cup {[BaseTerm(1) EXCEPT !.intersection_of = v, !.relationships = w] :
             v \in IntersectionSets, w \in {<<>>, <<<<IS_A, <<4, 1>>>>, <<3, <<1>>>>>>}}

RelationshipDatas ==
         EntityVariations(BaseTypedef(1))
    \cup {[BaseTypedef(1) EXCEPT ![f] = v] :
             f \in {"intersection_of", "transitive_over", "disjoint_over"},
             v \in SomeIdSets}
    \cup {[BaseTypedef(1) EXCEPT ![f] = v] :
             f \in {"holds_over_chain", "equivalent_to_chain"}, v \in ChainSets}
    \cup {[BaseTypedef(1) EXCEPT !.domain = a, !.range = b, !.inverse_of = c] :
             a \in {None, 0, 1}, b \in {None, 3}, c \in {None, 0, 4}}
    \cup {[BaseTypedef(1) EXCEPT
              !.antisymmetric = a, !.cyclic = a, !.reflexive = a,
              !.asymmetric = a, !.symmetric = b, !.transitive = b,
              !.functional = b, !.inverse_functional = b,
              !.metadata_tag = c, !.class_level = c, !.replaced_by = v,
              !.expand_assertion_to = d, !.expand_expression_to = d] :
             a \in BOOLEAN, b \in BOOLEAN, c \in BOOLEAN,
             v \in {<<>>, <<3>>},
             d \in {<<>>, <<<<"Definition", 3, <<>>>>, <<"Definition", 1, <<>>>>>>}}

\* The ontologies: _terms and _relationships are dicts keyed by id, in
\* insertion order.
TermA == [BaseTerm(1) EXCEPT !.namespace = 1, !.relationships = <<<<3, <<4>>>>>>]
TermB == [BaseTerm(3) EXCEPT !.namespace = 3]
TermBad == [BaseTerm(0) EXCEPT !.name = 1]
TypedefA == [BaseTypedef(1) EXCEPT !.namespace = 1, !.consider = <<4>>]
TypedefC == [BaseTypedef(4) EXCEPT !.namespace = 3]
TypedefBad == [BaseTypedef(3) EXCEPT !.range = 0]

OntTermDicts ==
    SeqsNoDup({TermA, TermB}, MaxLen) \cup {<<TermBad, TermA>>, <<TermB, TermBad>>}
OntTypedefDicts == {<<>>, <<TypedefC, TypedefA>>, <<TypedefA, TypedefBad>>}
OntMetadatas ==
    {PyNone,
     <<"Metadata", BaseMetadata>>,
     <<"Metadata", [BaseMetadata EXCEPT !.default_namespace = 1]>>,
     <<"Metadata", [BaseMetadata EXCEPT !.subsetdefs = <<[name |-> 0, description |-> 1]>>]>>}

Ontologies ==
    {[metadata |-> m, terms |-> ts, relationships |-> rs] :
        m \in OntMetadatas, ts \in OntTermDicts, rs \in OntTypedefDicts}

-----------------------------------------------------------------------------
(* The serializer *)

VARIABLES
    ont,    \* self.ont, the ontology the serializer was constructed on
    op,     \* the method called, "idle" between calls
    arg,    \* its argument
    ret     \* what it returned, or the exception it raised

vars == <<ont, op, arg, ret>>

Init ==
    /\ ont \in Ontologies
    /\ op = "idle"
    /\ arg = PyNone
    /\ ret = PyNone

\* A method is called when no call is in progress (the serializer is
\* synchronous and single-threaded); the state keeps the call's outcome
\* until Return hands it to the caller.
ToObodoc ==
    /\ op = "idle"
    /\ \E o \in Ontologies :
          /\ arg' = o
          /\ ret' = to_obodoc(ont, o)
    /\ op' = "_to_obodoc"
    /\ UNCHANGED ont

ToHeaderFrame ==
    /\ op = "idle"
    /\ \E m \in Metadatas :
          /\ arg' = m
          /\ ret' = to_header_frame(m)
    /\ op' = "_to_header_frame"
    /\ UNCHANGED ont

ToPropertyValue ==
    /\ op = "idle"
    /\ \E pv \in PropertyValues :
          /\ arg' = pv
          /\ ret' = to_property_value(pv)
    /\ op' = "_to_property_value"
    /\ UNCHANGED ont

ToSynonym ==
    /\ op = "idle"
    /\ \E syn \in SynonymDatas :
          /\ arg' = syn
          /\ ret' = to_synonym(syn)
    /\ op' = "_to_synonym"
    /\ UNCHANGED ont

ToTermFrame ==
    /\ op = "idle"
    /\ \E t \in TermDatas :
          /\ arg' = t
          /\ ret' = to_term_frame(default_namespace(ont), t)
    /\ op' = "_to_term_frame"
    /\ UNCHANGED ont

ToTypedefFrame ==
    /\ op = "idle"
    /\ \E r \in RelationshipDatas :
          /\ arg' = r
          /\ ret' = to_typedef_frame(default_namespace(ont), r)
    /\ op' = "_to_typedef_frame"
    /\ UNCHANGED ont

ToXref ==
    /\ op = "idle"
    /\ \E x \in Xrefs :
          /\ arg' = x
          /\ ret' = to_xref(x)
    /\ op' = "_to_xref"
    /\ UNCHANGED ont

Return ==
    /\ op # "idle"
    /\ op' = "idle"
    /\ arg' = PyNone
    /\ ret' = PyNone
    /\ UNCHANGED ont

Next ==
    \/ Return
    \/ ToObodoc
    \/ ToHeaderFrame
    \/ ToPropertyValue
    \/ ToSynonym
    \/ ToTermFrame
    \/ ToTypedefFrame
    \/ ToXref

Spec == Init /\ [][Next]_vars

-----------------------------------------------------------------------------
(* Vocabulary of the properties *)

Range(s) == {s[i] : i \in DOMAIN s}
IsFrame(r) == r[1] \in {"TermFrame", "TypedefFrame"}
IsDoc(r) == r[1] = "OboDoc"
Ident(x) == <<"Ident", x>>
WithTag(clauses, tags) == SelectSeq(clauses, LAMBDA c : c[1] \in tags)
Ascending(ids) == \A i, j \in DOMAIN ids : i < j => ids[i] < ids[j]

\* The ids of the model that the frame builders hand to the parser.
XrefIds(xrefs) == {x.id : x \in Range(xrefs)}
PropertyValueIds(pvs) ==
    UNION {IF "resource" \in DOMAIN pv THEN {pv.property, pv.resource}
           ELSE {pv.property, pv.datatype} : pv \in Range(pvs)}
SynonymIds(syns) ==
    UNION {({syn.type} \ {None}) \cup XrefIds(syn.xrefs) : syn \in Range(syns)}
DefinitionIds(d) == IF d = PyNone THEN {} ELSE XrefIds(d[3])
MetadataIds(m) ==
         {sd.name : sd \in Range(m.subsetdefs)}
    \cup {st.id : st \in Range(m.synonymtypedefs)}
    \cup PropertyValueIds(m.annotations)
GenericItems(relationships) == {item \in Range(relationships) : item[1] # IS_A}
EntityIds(e) ==
         {e.id} \cup Range(e.alternate_ids) \cup DefinitionIds(e.definition)
    \cup Range(e.subsets) \cup SynonymIds(e.synonyms) \cup XrefIds(e.xrefs)
    \cup PropertyValueIds(e.annotations)
    \cup Range(is_a_targets(e.relationships))
    \cup UNION {{item[1]} \cup Range(item[2]) : item \in GenericItems(e.relationships)}
    \cup Range(e.union_of) \cup Range(e.equivalent_to) \cup Range(e.disjoint_from)
    \cup Range(e.replaced_by) \cup Range(e.consider)
TermIds(t) ==
    EntityIds(t) \cup UNION {Range(x) : x \in Range(t.intersection_of)}
TypedefIds(r) ==
         EntityIds(r) \cup ({r.domain, r.range, r.inverse_of} \ {None})
    \cup Range(r.intersection_of) \cup Range(r.transitive_over)
    \cup Range(r.disjoint_over)
    \cup UNION {Range(c) : c \in Range(r.equivalent_to_chain)}
    \cup UNION {DefinitionIds(d) :
                  d \in Range(r.expand_assertion_to) \cup Range(r.expand_expression_to)}
OntologyIds(self_ont, o) ==
         (IF o.metadata = PyNone THEN {} ELSE MetadataIds(o.metadata[2]))
    \cup UNION {TermIds(t) : t \in Range(self_ont.terms)}
    \cup UNION {TypedefIds(r) : r \in Range(self_ont.relationships)}

-----------------------------------------------------------------------------
(* C2 *)

\* C2: render is all-or-nothing. When an id that emission parses is
\* malformed (in the header, a term frame or a typedef frame), the call ends
\* in an exception and what it yields is the exception alone; a document,
\* when one is returned, holds a frame for every term and typedef emitted.
\* The same holds of each frame builder called on its own.
C2_AllOrNothing ==
    /\ op = "_to_obodoc" =>
          /\ OntologyIds(ont, arg) \cap Malformed # {} => IsError(ret)
          /\ IsError(ret) \/ IsDoc(ret)
          /\ IsError(ret) => Len(ret) = 2
          /\ IsDoc(ret) =>
                /\ Len(ret[3]) = Len(ont.terms) + Len(ont.relationships)
                /\ \A i \in DOMAIN ret[3] : IsFrame(ret[3][i])
    /\ op = "_to_header_frame" =>
          (MetadataIds(arg) \cap Malformed # {} => IsError(ret))
    /\ op = "_to_term_frame" => (TermIds(arg) \cap Malformed # {} => IsError(ret))
    /\ op = "_to_typedef_frame" =>
          (TypedefIds(arg) \cap Malformed # {} => IsError(ret))

\* A render that fails in a typedef frame, after the header frame and the
\* term frames were built.
C2_Witness ==
    /\ op = "_to_obodoc"
    /\ ret = Raise("ValueError")
    /\ arg.metadata # PyNone
    /\ MetadataIds(arg.metadata[2]) \cap Malformed = {}
    /\ ont.terms # <<>>
    /\ \A t \in Range(ont.terms) : TermIds(t) \cap Malformed = {}
    /\ \E r \in Range(ont.relationships) : TypedefIds(r) \cap Malformed # {}

-----------------------------------------------------------------------------
(* C1, C10 *)

FrameIds(frames) == [i \in DOMAIN frames |-> frames[i][2][2]]

\* C1: the document returned for the argument ontology has a header frame
\* exactly when the argument's metadata is present, then one term frame per
\* term of the argument in ascending id order, then one typedef frame per
\* relationship of the argument in ascending id order.
C1_DocumentOfArgument ==
    op = "_to_obodoc" /\ IsDoc(ret) =>
        LET nt == Len(arg.terms)
            nr == Len(arg.relationships)
            termFrames == SubSeq(ret[3], 1, Min(nt, Len(ret[3])))
            typedefFrames == SubSeq(ret[3], nt + 1, Len(ret[3]))
        IN  /\ (ret[2][1] = "HeaderFrame") <=> (arg.metadata # PyNone)
            /\ Len(ret[3]) = nt + nr
            /\ \A i \in DOMAIN termFrames : termFrames[i][1] = "TermFrame"
            /\ \A i \in DOMAIN typedefFrames : typedefFrames[i][1] = "TypedefFrame"
            /\ Ascending(FrameIds(termFrames))
            /\ Ascending(FrameIds(typedefFrames))
            /\ Range(FrameIds(termFrames)) = {t.id : t \in Range(arg.terms)}
            /\ Range(FrameIds(typedefFrames)) = {r.id : r \in Range(arg.relationships)}

\* C10: what _to_obodoc yields is determined by its argument alone: any
\* other ontology held by the serializer gives the same outcome.
C10_ArgumentAlone ==
    op = "_to_obodoc" => \A other \in Ontologies : to_obodoc(other, arg) = ret

-----------------------------------------------------------------------------
(* C3, C8 *)

SameSet(a, b) == Range(a) = Range(b)

\* Two dicts of sets with the same keys and, under each key, the same values
SameDictOfSets(a, b) ==
    /\ {item[1] : item \in Range(a)} = {item[1] : item \in Range(b)}
    /\ \A x \in Range(a), y \in Range(b) : x[1] = y[1] => SameSet(x[2], y[2])

\* Two Metadata objects that differ at most in the iteration order of their
\* sets and dicts
SameMetadataContents(m1, m2) ==
    /\ \A f \in {"format_version", "data_version", "date", "saved_by",
                 "auto_generated_by", "default_namespace", "namespace_id_rule",
                 "ontology", "owl_axioms"} : m1[f] = m2[f]
    /\ \A f \in {"imports", "subsetdefs", "synonymtypedefs", "idspaces",
                 "annotations", "remarks"} : SameSet(m1[f], m2[f])
    /\ SameDictOfSets(m1.unreserved, m2.unreserved)

\* C3: the header frame of a Metadata object is the header frame of every
\* Metadata object with the same contents in another iteration order.
C3_HeaderOrderIndependent ==
    op = "_to_header_frame" =>
        \A m2 \in Metadatas :
            SameMetadataContents(arg, m2) => to_header_frame(m2) = ret

\* C8: the wire synonym of a SynonymData is the wire synonym of every
\* SynonymData equal to it up to the iteration order of its xrefs.
C8_SynonymXrefsSorted ==
    op = "_to_synonym" =>
        \A syn2 \in SynonymDatas :
            /\ syn2.description = arg.description
            /\ syn2.scope = arg.scope
            /\ syn2.type = arg.type
            /\ SameSet(syn2.xrefs, arg.xrefs)
            => to_synonym(syn2) = ret

-----------------------------------------------------------------------------
(* C4, C5 *)

\* The set s as the sequence of its elements in lexicographic order
InOrder(s) ==
    CHOOSE q \in [1..Cardinality(s) -> s] :
        /\ Range(q) = s
        /\ \A i, j \in DOMAIN q : i < j => LexLess(q[i], q[j])

\* C4: a term with 1-element tuples in intersection_of, all ids well-formed,
\* renders to a frame whose intersection clauses are one single-id clause per
\* 1-element tuple in sorted order, then one (relationship, class) clause per
\* 2-element tuple in sorted order.
C4_IntersectionOfSplit ==
    /\ op = "_to_term_frame"
    /\ \E x \in Range(arg.intersection_of) : Len(x) = 1
    /\ TermIds(arg) \cap Malformed = {}
    => /\ ~IsError(ret)
       /\ WithTag(ret[3], {"intersection_of"}) =
             LET ones == InOrder({x \in Range(arg.intersection_of) : Len(x) = 1})
                 pairs == InOrder({x \in Range(arg.intersection_of) : Len(x) = 2})
             IN     [i \in DOMAIN ones |-> <<"intersection_of", Ident(ones[i][1])>>]
                 \o [i \in DOMAIN pairs |->
                       <<"intersection_of", Ident(pairs[i][1]), Ident(pairs[i][2])>>]

TailTags ==
    {"replaced_by", "consider", "expand_assertion_to", "expand_expression_to",
     "is_metadata_tag", "is_class_level"}

\* C5: a typedef whose ids are all well-formed renders to a frame that ends
\* with its replaced_by clauses (sorted), its consider clauses (sorted), its
\* expand_assertion_to and expand_expression_to clauses in model order and
\* its metadata_tag and class_level flags.
C5_TypedefTail ==
    /\ op = "_to_typedef_frame"
    /\ TypedefIds(arg) \cap Malformed = {}
    => /\ ~IsError(ret)
       /\ LET replaced == InOrder({<<x>> : x \in Range(arg.replaced_by)})
              consider == InOrder({<<x>> : x \in Range(arg.consider)})
              expected ==
                      [i \in DOMAIN replaced |-> <<"replaced_by", Ident(replaced[i][1])>>]
                   \o [i \in DOMAIN consider |-> <<"consider", Ident(consider[i][1])>>]
                   \o ExpandClauses("expand_assertion_to", arg.expand_assertion_to)
                   \o ExpandClauses("expand_expression_to", arg.expand_expression_to)
                   \o Flag("is_metadata_tag", arg.metadata_tag)
                   \o Flag("is_class_level", arg.class_level)
              n == Len(ret[3])
          IN  /\ Len(expected) <= n
              /\ SubSeq(ret[3], n - Len(expected) + 1, n) = expected
              /\ WithTag(ret[3], TailTags) = expected

-----------------------------------------------------------------------------
(* C6 *)

NamespaceClausesOf(frame) == WithTag(frame[3], {"namespace"})

\* The frame of entity e, of an ontology whose default namespace is dn, has
\* the namespace clause of e when e has a namespace other than dn, and no
\* namespace clause otherwise.
NamespaceRule(frame, e, dn) ==
    NamespaceClausesOf(frame) =
        IF e.namespace # None /\ e.namespace # dn
        THEN << <<"namespace", Str(e.namespace)>> >>
        ELSE <<>>

\* The term or typedef of the serializer's ontology that a frame of the
\* document was built from
EntityOf(frame) ==
    LET from == IF frame[1] = "TermFrame" THEN ont.terms ELSE ont.relationships
    IN  CHOOSE e \in Range(from) : e.id = frame[2][2]

-----------------------------------------------------------------------------
(* C7 *)

\* C7: is-a extraction. In every term frame and typedef frame the is_a
\* clauses carry the targets stored under the key "is_a" in ascending
\* order, every is_a clause stands before every generic relationship
\* clause, no generic relationship clause carries the key "is_a", and every
\* other key has one generic relationship clause per target, carrying the
\* key and the target.
C7_IsAExtraction ==
    op \in {"_to_term_frame", "_to_typedef_frame"} /\ IsFrame(ret) =>
        LET clauses == ret[3]
            isa == WithTag(clauses, {"is_a"})
            generic == WithTag(clauses, {"relationship"})
            pairs == UNION {{<<item[1], v>> : v \in Range(item[2])} :
                              item \in GenericItems(arg.relationships)}
        IN  /\ \A i \in DOMAIN isa : Len(isa[i]) = 2 /\ isa[i][2][1] = "Ident"
            /\ Ascending([i \in DOMAIN isa |-> isa[i][2][2]])
            /\ {isa[i][2][2] : i \in DOMAIN isa} = Range(is_a_targets(arg.relationships))
            /\ \A i, j \in DOMAIN clauses :
                  clauses[i][1] = "is_a" /\ clauses[j][1] = "relationship" => i < j
            /\ \A i \in DOMAIN generic : generic[i][2] # Ident(IS_A)
            /\ Len(generic) = Cardinality(pairs)
            /\ \A p \in pairs :
                  \E i \in DOMAIN generic :
                      generic[i] = <<"relationship", Ident(p[1]), Ident(p[2])>>

\* A term frame built from is_a targets stored out of order, after a
\* generic relationship in the order of the map.
C7_Witness ==
    /\ op = "_to_term_frame"
    /\ IsFrame(ret)
    /\ \E i, j \in DOMAIN arg.relationships :
          /\ arg.relationships[i] = <<IS_A, <<4, 1>>>>
          /\ arg.relationships[j][1] # IS_A
          /\ arg.relationships[j][2] # <<>>
          /\ j < i

-----------------------------------------------------------------------------
(* C9 *)

SingleIdTags ==
    {"subsetdef", "synonymtypedef", "idspace", "alt_id", "subset", "is_a",
     "union_of", "equivalent_to", "disjoint_from", "replaced_by", "consider",
     "domain", "range", "inverse_of", "transitive_over", "disjoint_over"}
PairIdTags == {"relationship", "holds_over_chain", "equivalent_to_chain"}

\* The positions of a clause that hold identifiers
IdSlots(clause) ==
    IF clause[1] \in SingleIdTags THEN {2}
    ELSE IF clause[1] \in PairIdTags THEN {2, 3}
    ELSE IF clause[1] = "intersection_of" THEN 2..Len(clause)
    ELSE {}

AllIdsParsed(clauses) ==
    \A i \in DOMAIN clauses : \A k \in IdSlots(clauses[i]) : clauses[i][k][1] = "Ident"

\* C9: every identifier a clause of a header, term or typedef frame carries
\* is the outcome of the identifier parser, never the model's raw string.
C9_IdsParsedAtEmission ==
    /\ op = "_to_header_frame" /\ ~IsError(ret) => AllIdsParsed(ret[2])
    /\ op \in {"_to_term_frame", "_to_typedef_frame"} /\ IsFrame(ret) =>
          AllIdsParsed(ret[3])

====
